---- MODULE Spec2Model ----
(***************************************************************************)
(* To-do list core of daneecool/electron-app.                              *)
(*                                                                         *)
(* Three programs are modelled:                                            *)
(*   - src/mvc.js: Model (localStorage), View, Controller, all synchronous *)
(*   - src/unnamed/part_000: the host process, four ipcMain handlers over  *)
(*     one SQLite table  todos(id AUTOINCREMENT, text, completed)          *)
(*   - src/mvc_sqlite.js: the renderer whose Model calls the host through  *)
(*     ipcRenderer.invoke and whose Controller chains mutation -> list ->  *)
(*     render in promise callbacks                                         *)
(*                                                                         *)
(*   - src/unnamed/part_002: the page script that came before the MVC code *)
(*                                                                         *)
(* Spec     drives the localStorage application and the host's table with  *)
(*          the same sequence of store operations, one at a time.          *)
(* SpecIPC  is the renderer of src/mvc_sqlite.js talking to the host:      *)
(*          gestures, queued statements and replies interleave freely.     *)
(*                                                                         *)
(* SpecScript is the page of src/unnamed/part_002.                         *)
(*                                                                         *)
(* Every item carries a field  born , the serial number of its creation.   *)
(* It is a history stamp: no operation of the program reads it.            *)
(***************************************************************************)
EXTENDS Naturals, Sequences, FiniteSets

\* ---------------------------------------------------------------- bounds
\* number of store operations of one run of Spec
MaxOps == 5
\* number of user gestures of one run of SpecIPC
MaxGestures == 3
\* number of calls of the Controller that are not over, at any one time, in SpecIPC
MaxInFlight == 2
\* number of <li> elements newElement() may append in one run of SpecScript
MaxElements == 3
\* texts a user submits (already trimmed, non-empty)
Texts == {"a", "b"}
\* ids a caller of the store may pass to toggle and remove
Ids == 1..(MaxOps + 1)

VARIABLES
    todos,            \* mvc.js Model.todos
    localStorage,     \* <<>> while the key 'todos' is missing, else <<its value>>
    dom,              \* mvc.js View: the <li> children of #myUL
    table,            \* host: the rows of the SQLite table todos
    sqlite_sequence,  \* host: AUTOINCREMENT's record of the largest rowid ever used
    lastID,           \* host: this.lastID in the last INSERT's callback, <<>> while undefined
    calls,            \* mvc_sqlite.js: the Controller's calls that are not over, oldest first
    ipcDom,           \* mvc_sqlite.js View: the <li> children of #myUL
    gestures,         \* history: gestures the user has made in the mvc_sqlite.js page
    nops,             \* history: operations performed so far
    issuedL,          \* history: ids Model.addTodo of mvc.js assigned, in order
    issuedR,          \* history: ids the host's INSERT assigned, in order
    removedL,         \* history: ids of the items remove has taken out of Model.todos
    removedR,         \* history: ids of the rows remove has deleted from the table
    op,               \* history: the last operation
    op2,              \* history: the operation before it
    preL, preR,       \* history: list() of each store before the last operation
    pre2L, pre2R,     \* history: list() of each store before the last two operations
    outR,             \* history: how the host's handler of the last operation ended
    flippedOdd,       \* history: ids with an odd number of toggle requests the host resolved
    listed,           \* history: <<>> after a mutation, else <<what list() last returned>>
    myUL,             \* old page script: the <li> children of #myUL
    alert             \* old page script: whether the last newElement() raised the notice

localVars == <<todos, localStorage, dom>>
dbVars    == <<table, sqlite_sequence, lastID>>
ipcVars   == <<calls, ipcDom, gestures>>
scriptVars == <<myUL, alert>>
histVars  == <<nops, issuedL, issuedR, removedL, removedR, op, op2, preL, preR, pre2L, pre2R, outR,
               flippedOdd, listed>>
vars      == <<todos, localStorage, dom, table, sqlite_sequence, lastID, calls, ipcDom, gestures,
               nops, issuedL, issuedR, removedL, removedR, op, op2, preL, preR, pre2L, pre2R, outR,
               flippedOdd, listed, myUL, alert>>

NoRow == [undefined |-> TRUE]
NoOp  == [kind |-> "none", text |-> "", id |-> 0]

\* ------------------------------------------------------------- src/mvc.js

\* JSON.stringify of the array: one <<id, text, completed, born>> per element, in order
JSONstringify(ts) ==
    [i \in 1..Len(ts) |-> <<ts[i].id, ts[i].text, ts[i].completed, ts[i].born>>]

\* JSON.parse of a stored array: the array of objects
JSONparse(s) ==
    [i \in 1..Len(s) |->
        [id |-> s[i][1], text |-> s[i][2], completed |-> s[i][3], born |-> s[i][4]]]

\* localStorage.setItem('todos', value): the one key the program uses
SetItem(value) == <<value>>

\* Model.constructor: JSON.parse(localStorage.getItem('todos')) || []
\* (getItem gives null for a missing key, JSON.parse(null) is null, null || [] is [])
ModelLoad(storage) ==
    IF storage = <<>> THEN <<>> ELSE JSONparse(storage[1])

\* Model.getTodos
GetTodos(ts) == ts

AddTodoUnshift(ts, todoText, k) ==
    <<[id |-> IF Len(ts) > 0 THEN ts[Len(ts)].id + 1 ELSE 1,
       text |-> todoText, completed |-> FALSE, born |-> k]>> \o ts

AddTodoLen(ts, todoText, k) ==
    Append(ts, [id |-> Len(ts) + 1, text |-> todoText, completed |-> FALSE, born |-> k])

AddTodoFirst(ts, todoText, k) ==
    Append(ts, [id |-> IF Len(ts) > 0 THEN ts[1].id + 1 ELSE 1,
                text |-> todoText, completed |-> FALSE, born |-> k])

\* Model.addTodo, before saveTodos
AddTodo(ts, todoText, k) ==
    Append(ts, [id |-> IF Len(ts) > 0 THEN ts[Len(ts)].id + 1 ELSE 1,
                text |-> todoText, completed |-> FALSE, born |-> k])

\* Array.prototype.find: the index of the first element with this id, 0 if none
FindIndex(ts, id) ==
    IF \E i \in 1..Len(ts) : ts[i].id = id
    THEN CHOOSE i \in 1..Len(ts) :
            /\ ts[i].id = id
            /\ \A j \in 1..(i - 1) : ts[j].id /= id
    ELSE 0

ToggleTodoSet(ts, id) ==
    IF FindIndex(ts, id) = 0 THEN ts
    ELSE [ts EXCEPT ![FindIndex(ts, id)].completed = TRUE]

\* Model.toggleTodo, before saveTodos
ToggleTodo(ts, id) ==
    IF FindIndex(ts, id) = 0 THEN ts
    ELSE [ts EXCEPT ![FindIndex(ts, id)].completed = ~@]

RemoveTodoSplice(ts, id) ==
    LET i == IF FindIndex(ts, id) = 0 THEN Len(ts) ELSE FindIndex(ts, id)
    IN  [j \in 1..(Len(ts) - 1) |-> IF j < i THEN ts[j] ELSE ts[j + 1]]

\* Model.removeTodo, before saveTodos
RemoveTodo(ts, id) ==
    SelectSeq(ts, LAMBDA todo : todo.id /= id)

InnerHTMLKeep(children) == children

\* this.todoList.innerHTML = '': the children of #myUL after it
InnerHTMLClear(children) == <<>>

\* li.dataset.id = todo.id stores the number as a string
DatasetId(n) == <<"str", n>>

\* parseInt(li.dataset.id, 10)
ParseInt(s) == s[2]

\* View.renderTodos: the list is cleared, then one <li> per todo is appended;
\* completed is a boolean here
RenderTodos(ts) ==
    [i \in 1..Len(ts) |->
        [id |-> DatasetId(ts[i].id), text |-> ts[i].text, checked |-> ts[i].completed]]

\* ---------------------------------------------------- src/unnamed/part_000

Max(a, b) == IF a >= b THEN a ELSE b

MaxRowid(tbl) ==
    IF tbl = {} THEN 0 ELSE CHOOSE m \in {r.id : r \in tbl} : \A r \in tbl : r.id <= m

\* the rows in rowid order, as a scan of the table's B-tree visits them
RECURSIVE Scan(_)
Scan(tbl) ==
    IF tbl = {} THEN <<>>
    ELSE LET last == CHOOSE r \in tbl : \A q \in tbl : q.id <= r.id
         IN  Append(Scan(tbl \ {last}), last)

RECURSIVE ScanDesc(_)
ScanDesc(tbl) ==
    IF tbl = {} THEN <<>>
    ELSE LET last == CHOOSE r \in tbl : \A q \in tbl : q.id <= r.id
         IN  <<last>> \o ScanDesc(tbl \ {last})

\* db.all('SELECT * FROM todos')
SelectAll(tbl) == Scan(tbl)

\* the rowid INTEGER PRIMARY KEY AUTOINCREMENT gives the next row
NextRowid(tbl, seq) == Max(MaxRowid(tbl), seq) + 1

\* db.run('INSERT INTO todos (text, completed) VALUES (?, ?)', [todoText, 0])
InsertRow(tbl, seq, todoText, k) ==
    tbl \cup {[id |-> NextRowid(tbl, seq), text |-> todoText, completed |-> 0, born |-> k]}

\* db.get('SELECT completed FROM todos WHERE id = ?', [id]): the row, or undefined
SelectCompleted(tbl, id) ==
    IF \E r \in tbl : r.id = id
    THEN [completed |-> (CHOOSE r \in tbl : r.id = id).completed]
    ELSE NoRow

\* row.completed === 0 ? 1 : 0
NewCompletedState(row) == IF row.completed = 0 THEN 1 ELSE 0

UpdateCompletedAll(tbl, v, id) ==
    {[r EXCEPT !.completed = v] : r \in tbl}

\* db.run('UPDATE todos SET completed = ? WHERE id = ?', [newCompletedState, id])
UpdateCompleted(tbl, v, id) ==
    {IF r.id = id THEN [r EXCEPT !.completed = v] ELSE r : r \in tbl}

\* db.run('DELETE FROM todos WHERE id = ?', [id])
DeleteRow(tbl, id) == {r \in tbl : r.id /= id}

\* ------------------------------------------------------------ history

\* the id of the item created with stamp k
IdBorn(list, k) == list[CHOOSE i \in 1..Len(list) : list[i].born = k].id

\* one more resolved toggle request for id
Flip(odd, id) == IF id \in odd THEN odd \ {id} ELSE odd \cup {id}

Record(o, idL, idR) ==
    /\ nops' = nops + 1
    /\ op' = o
    /\ op2' = op
    /\ preL' = GetTodos(todos)
    /\ preR' = SelectAll(table)
    /\ pre2L' = preL
    /\ pre2R' = preR
    /\ issuedL' = IF o.kind = "add" THEN Append(issuedL, idL) ELSE issuedL
    /\ issuedR' = IF o.kind = "add" THEN Append(issuedR, idR) ELSE issuedR
    /\ removedL' = IF o.kind = "remove" /\ \E i \in 1..Len(todos) : todos[i].id = o.id
                   THEN removedL \cup {o.id} ELSE removedL
    /\ removedR' = IF o.kind = "remove" /\ \E r \in table : r.id = o.id
                   THEN removedR \cup {o.id} ELSE removedR
    /\ listed' = <<>>
    /\ flippedOdd' = IF o.kind = "toggle" /\ \E r \in table : r.id = o.id
                     THEN Flip(flippedOdd, o.id) ELSE flippedOdd

\* ------------------------------------------- Spec: one operation at a time

\* Controller.handleAddTodo of mvc.js: addTodo (push, saveTodos), getTodos, renderTodos
HandleAddTodo(todoText, k) ==
    /\ todos' = AddTodo(todos, todoText, k)
    /\ localStorage' = SetItem(JSONstringify(todos'))
    /\ dom' = InnerHTMLClear(dom) \o RenderTodos(GetTodos(todos'))

HandleToggleTodoSave(id) ==
    /\ todos' = ToggleTodo(todos, id)
    /\ localStorage' = SetItem(JSONstringify(todos'))
    /\ dom' = InnerHTMLClear(dom) \o RenderTodos(GetTodos(todos'))

\* Controller.handleToggleTodo of mvc.js: saveTodos only when the item was found
HandleToggleTodo(id) ==
    /\ todos' = ToggleTodo(todos, id)
    /\ localStorage' = IF FindIndex(todos, id) /= 0 THEN SetItem(JSONstringify(todos')) ELSE localStorage
    /\ dom' = InnerHTMLClear(dom) \o RenderTodos(GetTodos(todos'))

HandleRemoveTodoNoSave(id) ==
    /\ todos' = RemoveTodo(todos, id)
    /\ UNCHANGED localStorage
    /\ dom' = InnerHTMLClear(dom) \o RenderTodos(GetTodos(todos'))

\* Controller.handleRemoveTodo of mvc.js
HandleRemoveTodo(id) ==
    /\ todos' = RemoveTodo(todos, id)
    /\ localStorage' = SetItem(JSONstringify(todos'))
    /\ dom' = InnerHTMLClear(dom) \o RenderTodos(GetTodos(todos'))

HostAddTodoArrow(todoText, k) ==
    /\ table' = InsertRow(table, sqlite_sequence, todoText, k)
    /\ sqlite_sequence' = NextRowid(table, sqlite_sequence)
    /\ lastID' = <<>>
    /\ outR' = "resolved"

\* ipcMain.handle('addTodo') run to its resolve({ id: this.lastID })
HostAddTodo(todoText, k) ==
    /\ table' = InsertRow(table, sqlite_sequence, todoText, k)
    /\ sqlite_sequence' = NextRowid(table, sqlite_sequence)
    /\ lastID' = <<NextRowid(table, sqlite_sequence)>>
    /\ outR' = "resolved"

\* ipcMain.handle('toggleTodo') run to its end: with no row, row.completed throws in
\* the callback of db.get and neither resolve nor reject is called
HostToggleTodo(id) ==
    LET row == SelectCompleted(table, id)
    IN  IF row = NoRow
        THEN /\ outR' = "thrown"
             /\ UNCHANGED dbVars
        ELSE /\ table' = UpdateCompleted(table, NewCompletedState(row), id)
             /\ outR' = "resolved"
             /\ UNCHANGED <<sqlite_sequence, lastID>>

\* ipcMain.handle('removeTodo') run to its resolve()
HostRemoveTodo(id) ==
    /\ table' = DeleteRow(table, id)
    /\ outR' = "resolved"
    /\ UNCHANGED <<sqlite_sequence, lastID>>

Add(todoText) ==
    /\ nops < MaxOps
    /\ HandleAddTodo(todoText, Len(issuedL) + 1)
    /\ HostAddTodo(todoText, Len(issuedL) + 1)
    /\ Record([kind |-> "add", text |-> todoText, id |-> 0],
              IdBorn(todos', Len(issuedL) + 1), NextRowid(table, sqlite_sequence))
    /\ UNCHANGED <<ipcVars, scriptVars>>

Toggle(id) ==
    /\ nops < MaxOps
    /\ HandleToggleTodo(id)
    /\ HostToggleTodo(id)
    /\ Record([kind |-> "toggle", text |-> "", id |-> id], 0, 0)
    /\ UNCHANGED <<ipcVars, scriptVars>>

Remove(id) ==
    /\ nops < MaxOps
    /\ HandleRemoveTodo(id)
    /\ HostRemoveTodo(id)
    /\ Record([kind |-> "remove", text |-> "", id |-> id], 0, 0)
    /\ UNCHANGED <<ipcVars, scriptVars>>

\* the sequence in the opposite order
Reverse(seq) == [i \in 1..Len(seq) |-> seq[Len(seq) + 1 - i]]

ListReverse ==
    /\ todos' = Reverse(todos)
    /\ listed' = <<[L |-> GetTodos(todos'), R |-> SelectAll(table),
                    n |-> IF listed = <<>> THEN 1 ELSE 2]>>
    /\ UNCHANGED <<localStorage, dom, dbVars, ipcVars, scriptVars, nops, issuedL, issuedR,
                   removedL, removedR, op, op2, preL, preR, pre2L, pre2R, outR, flippedOdd>>

\* list() of both stores: Model.getTodos of mvc.js, and getTodos of the host run to
\* its resolve(rows); n tells the first list() after a mutation from the later ones
List ==
    /\ listed' = <<[L |-> GetTodos(todos), R |-> SelectAll(table),
                    n |-> IF listed = <<>> THEN 1 ELSE 2]>>
    /\ UNCHANGED <<localVars, dbVars, ipcVars, scriptVars, nops, issuedL, issuedR,
                   removedL, removedR, op, op2, preL, preR, pre2L, pre2R, outR, flippedOdd>>

\* the page is loaded again: new Model() reads localStorage, new Controller renders
Reload ==
    /\ todos' = ModelLoad(localStorage)
    /\ dom' = InnerHTMLClear(<<>>) \o RenderTodos(GetTodos(todos'))
    /\ UNCHANGED <<localStorage, dbVars, ipcVars, histVars, scriptVars>>

Init ==
    /\ todos = <<>>
    /\ localStorage = <<>>
    /\ dom = <<>>
    /\ table = {}
    /\ sqlite_sequence = 0
    /\ lastID = <<>>
    /\ calls = <<>>
    /\ ipcDom = <<>>
    /\ gestures = 0
    /\ nops = 0
    /\ issuedL = <<>>
    /\ issuedR = <<>>
    /\ removedL = {}
    /\ removedR = {}
    /\ op = NoOp
    /\ op2 = NoOp
    /\ preL = <<>>
    /\ preR = <<>>
    /\ pre2L = <<>>
    /\ pre2R = <<>>
    /\ outR = "none"
    /\ flippedOdd = {}
    /\ listed = <<>>
    /\ myUL = <<>>
    /\ alert = FALSE

Next ==
    \/ \E todoText \in Texts : Add(todoText)
    \/ \E id \in Ids : Toggle(id)
    \/ \E id \in Ids : Remove(id)
    \/ List
    \/ Reload

Spec == Init /\ [][Next]_vars

\* ------------------------------- SpecIPC: src/mvc_sqlite.js and the host

\* View.renderTodos of mvc_sqlite.js: completed is 0 or 1 here, and 0 is falsy
RenderRows(rows) ==
    [i \in 1..Len(rows) |->
        [id |-> DatasetId(rows[i].id), text |-> rows[i].text,
         checked |-> rows[i].completed /= 0]]

Unread == [unread |-> TRUE]

\* the sequence without its c-th element
Drop(seq, c) == [i \in 1..(Len(seq) - 1) |-> IF i < c THEN seq[i] ELSE seq[i + 1]]

\* One call of the Controller: the chain  model.<mutation>(.., () => model.getTodos(
\* todos => view.renderTodos(todos)))  of one gesture, or the constructor's getTodos.
\*   pc: "insert" "select" "update" "delete" "list"  the statement is queued in the host
\*       "mutated" "listed"  the host has resolved, the reply is on its way
\*       "rejected"          the host has rejected, the reply is on its way
\*       "thrown"            the callback of db.get threw: the promise is never settled
\*   failed: the statement whose callback got err, "" while there is none
NewCall(kind, todoText, id, pc) ==
    [kind |-> kind, text |-> todoText, id |-> id, pc |-> pc,
     row |-> Unread, newCompletedState |-> 0, todos |-> <<>>, err |-> "", failed |-> ""]

\* bindAddTodo's listener with a non-empty trimmed text: handleAddTodo, Model.addTodo,
\* ipcRenderer.invoke('addTodo'), and in the host db.run(INSERT) is queued
ClickAdd(todoText) ==
    /\ gestures < MaxGestures
    /\ Len(calls) < MaxInFlight
    /\ gestures' = gestures + 1
    /\ calls' = Append(calls, NewCall("add", todoText, 0, "insert"))
    /\ UNCHANGED <<ipcDom, dbVars, localVars, scriptVars, histVars>>

\* the elements of #myUL a click can land on, as renderTodos builds them: the <li>
\* (data-id, class 'checked' or none), its close <span>, and the <ul> itself
LiElement(li) ==
    [tagName |-> "LI", className |-> IF li.checked THEN "checked" ELSE "", dataset |-> li.id,
     parentElement |-> [tagName |-> "UL", dataset |-> <<>>]]

SpanElement(li) ==
    [tagName |-> "SPAN", className |-> "close", dataset |-> <<>>,
     parentElement |-> [tagName |-> "LI", dataset |-> li.id]]

UlElement ==
    [tagName |-> "UL", className |-> "", dataset |-> <<>>,
     parentElement |-> [tagName |-> "DIV", dataset |-> <<>>]]

ToggleListenerClosest(target) ==
    IF target.tagName = "LI"
    THEN <<[handler |-> "toggle", id |-> ParseInt(target.dataset)]>>
    ELSE IF target.parentElement.tagName = "LI"
         THEN <<[handler |-> "toggle", id |-> ParseInt(target.parentElement.dataset)]>>
         ELSE <<>>

\* bindToggleTodo's listener: the calls of the handler it makes for a click on target
ToggleListener(target) ==
    IF target.tagName = "LI"
    THEN <<[handler |-> "toggle", id |-> ParseInt(target.dataset)]>>
    ELSE <<>>

\* bindRemoveTodo's listener: the calls of the handler it makes for a click on target
RemoveListener(target) ==
    IF target.className = "close"
    THEN <<[handler |-> "remove", id |-> ParseInt(target.parentElement.dataset)]>>
    ELSE <<>>

\* a click inside #myUL reaches both listeners of the <ul>, in the order they were added
Dispatch(target) == ToggleListener(target) \o RemoveListener(target)

\* the statement the host queues first for a request
FirstStatement(handler) == IF handler = "toggle" THEN "select" ELSE "delete"

\* one click inside #myUL: every handler call the listeners make starts a call of the
\* Controller (handleToggleTodo / handleRemoveTodo, invoke, the host queues the statement)
Click(target) ==
    /\ gestures < MaxGestures
    /\ Len(calls) < MaxInFlight
    /\ gestures' = gestures + 1
    /\ calls' = calls \o [k \in 1..Len(Dispatch(target)) |->
                            NewCall(Dispatch(target)[k].handler, "", Dispatch(target)[k].id,
                                    FirstStatement(Dispatch(target)[k].handler))]
    /\ UNCHANGED <<ipcDom, dbVars, localVars, scriptVars, histVars>>

\* the click on the i-th <li>
ClickItem(i) ==
    /\ i \in 1..Len(ipcDom)
    /\ Click(LiElement(ipcDom[i]))

\* the click on the i-th <li>'s close span
ClickClose(i) ==
    /\ i \in 1..Len(ipcDom)
    /\ Click(SpanElement(ipcDom[i]))

\* the click on the <ul> beside its items
ClickList == Click(UlElement)

\* host, addTodo: the INSERT runs and its callback settles the promise
RunInsert(c, ok) ==
    /\ calls[c].pc = "insert"
    /\ IF ok
       THEN /\ table' = InsertRow(table, sqlite_sequence, calls[c].text, Len(issuedR) + 1)
            /\ sqlite_sequence' = NextRowid(table, sqlite_sequence)
            /\ lastID' = <<NextRowid(table, sqlite_sequence)>>
            /\ issuedR' = Append(issuedR, NextRowid(table, sqlite_sequence))
            /\ calls' = [calls EXCEPT ![c].pc = "mutated"]
       ELSE /\ calls' = [calls EXCEPT ![c].pc = "rejected", ![c].err = "SQLITE_ERROR",
                                    ![c].failed = "insert"]
            /\ UNCHANGED <<dbVars, issuedR>>
    /\ UNCHANGED <<ipcDom, gestures, localVars, scriptVars, nops, issuedL, removedL, removedR,
                   op, op2, preL, preR, pre2L, pre2R, outR, flippedOdd, listed>>

\* host, toggleTodo: the SELECT runs and its callback either rejects (err), throws
\* reading row.completed of undefined, or queues the UPDATE with the flipped value
RunSelectCompleted(c, ok) ==
    /\ calls[c].pc = "select"
    /\ IF ~ok
       THEN calls' = [calls EXCEPT ![c].pc = "rejected", ![c].err = "SQLITE_ERROR",
                                    ![c].failed = "select"]
       ELSE LET row == SelectCompleted(table, calls[c].id)
            IN  IF row = NoRow
                THEN calls' = [calls EXCEPT ![c].pc = "thrown", ![c].row = row,
                                            ![c].err = "TypeError"]
                ELSE calls' = [calls EXCEPT ![c].pc = "update", ![c].row = row,
                                            ![c].newCompletedState = NewCompletedState(row)]
    /\ UNCHANGED <<ipcDom, gestures, dbVars, localVars, scriptVars, histVars>>

\* host, toggleTodo: the UPDATE runs and its callback settles the promise
RunUpdate(c, ok) ==
    /\ calls[c].pc = "update"
    /\ IF ok
       THEN /\ table' = UpdateCompleted(table, calls[c].newCompletedState, calls[c].id)
            /\ calls' = [calls EXCEPT ![c].pc = "mutated"]
            /\ flippedOdd' = Flip(flippedOdd, calls[c].id)
       ELSE /\ calls' = [calls EXCEPT ![c].pc = "rejected", ![c].err = "SQLITE_ERROR",
                                    ![c].failed = "update"]
            /\ UNCHANGED <<table, flippedOdd>>
    /\ UNCHANGED <<ipcDom, gestures, sqlite_sequence, lastID, localVars, scriptVars, nops,
                   issuedL, issuedR, removedL, removedR, op, op2, preL, preR, pre2L, pre2R,
                   outR, listed>>

\* host, removeTodo: the DELETE runs and its callback settles the promise
RunDelete(c, ok) ==
    /\ calls[c].pc = "delete"
    /\ IF ok
       THEN /\ table' = DeleteRow(table, calls[c].id)
            /\ calls' = [calls EXCEPT ![c].pc = "mutated"]
       ELSE /\ calls' = [calls EXCEPT ![c].pc = "rejected", ![c].err = "SQLITE_ERROR",
                                    ![c].failed = "delete"]
            /\ UNCHANGED table
    /\ UNCHANGED <<ipcDom, gestures, sqlite_sequence, lastID, localVars, scriptVars, histVars>>

\* host, getTodos: the SELECT * runs and its callback settles the promise with the rows
RunSelectAll(c, ok) ==
    /\ calls[c].pc = "list"
    /\ IF ok
       THEN calls' = [calls EXCEPT ![c].pc = "listed", ![c].todos = SelectAll(table)]
       ELSE calls' = [calls EXCEPT ![c].pc = "rejected", ![c].err = "SQLITE_ERROR",
                                    ![c].failed = "list"]
    /\ UNCHANGED <<ipcDom, gestures, dbVars, localVars, scriptVars, histVars>>

MutationReplyEager(c) ==
    /\ calls[c].pc \in {"insert", "select", "update", "delete", "mutated"}
    /\ calls' = [calls EXCEPT ![c].pc = "list"]
    /\ UNCHANGED <<ipcDom, gestures, dbVars, localVars, scriptVars, histVars>>

\* renderer: the .then of Model.addTodo / toggleTodo / removeTodo calls the callback,
\* which calls Model.getTodos: invoke('getTodos'), and in the host db.all is queued
MutationReply(c) ==
    /\ calls[c].pc = "mutated"
    /\ calls' = [calls EXCEPT ![c].pc = "list"]
    /\ UNCHANGED <<ipcDom, gestures, dbVars, localVars, scriptVars, histVars>>

\* renderer: the .then of Model.getTodos calls the callback, which renders the rows
ListReply(c) ==
    /\ calls[c].pc = "listed"
    /\ ipcDom' = InnerHTMLClear(ipcDom) \o RenderRows(calls[c].todos)
    /\ calls' = Drop(calls, c)
    /\ UNCHANGED <<gestures, dbVars, localVars, scriptVars, histVars>>

RejectionReplyCallback(c) ==
    /\ calls[c].pc = "rejected"
    /\ calls' = IF calls[c].failed = "list" THEN Drop(calls, c)
                 ELSE [calls EXCEPT ![c].pc = "list"]
    /\ UNCHANGED <<ipcDom, gestures, dbVars, localVars, scriptVars, histVars>>

\* renderer: the promise of invoke is rejected and .then was given no rejection
\* handler: the callback is not called, the rejection is reported as unhandled
RejectionReply(c) ==
    /\ calls[c].pc = "rejected"
    /\ calls' = Drop(calls, c)
    /\ UNCHANGED <<ipcDom, gestures, dbVars, localVars, scriptVars, histVars>>

\* the statement of call c that the host has queued, run with or without an error
HostStep(c) ==
    \E ok \in BOOLEAN :
        \/ RunInsert(c, ok)
        \/ RunSelectCompleted(c, ok)
        \/ RunUpdate(c, ok)
        \/ RunDelete(c, ok)
        \/ RunSelectAll(c, ok)

\* Controller.constructor of mvc_sqlite.js: getTodos is invoked, then the hooks are bound
InitIPC ==
    /\ todos = <<>>
    /\ localStorage = <<>>
    /\ dom = <<>>
    /\ table = {}
    /\ sqlite_sequence = 0
    /\ lastID = <<>>
    /\ calls = <<NewCall("init", "", 0, "list")>>
    /\ ipcDom = <<>>
    /\ gestures = 0
    /\ nops = 0
    /\ issuedL = <<>>
    /\ issuedR = <<>>
    /\ removedL = {}
    /\ removedR = {}
    /\ op = NoOp
    /\ op2 = NoOp
    /\ preL = <<>>
    /\ preR = <<>>
    /\ pre2L = <<>>
    /\ pre2R = <<>>
    /\ outR = "none"
    /\ flippedOdd = {}
    /\ listed = <<>>
    /\ myUL = <<>>
    /\ alert = FALSE

\* node-sqlite3 runs the queued statements of different calls in no fixed order, and
\* nothing orders the replies of different calls
NextIPC ==
    \/ \E todoText \in Texts : ClickAdd(todoText)
    \/ \E i \in 1..Len(ipcDom) : ClickItem(i)
    \/ \E i \in 1..Len(ipcDom) : ClickClose(i)
    \/ ClickList
    \/ \E c \in 1..Len(calls) : HostStep(c)
    \/ \E c \in 1..Len(calls) : MutationReply(c)
    \/ \E c \in 1..Len(calls) : ListReply(c)
    \/ \E c \in 1..Len(calls) : RejectionReply(c)

SpecIPC == InitIPC /\ [][NextIPC]_vars

\* ------------------------------------ SpecScript: src/unnamed/part_002

\* values the user may leave in #myInput, one character per element
InputValues == {<<>>, <<" ">>, <<" ", " ">>, <<"a">>, <<" ", "a">>, <<"a", " ">>}

RECURSIVE TrimStart(_)
TrimStart(s) == IF s /= <<>> /\ Head(s) = " " THEN TrimStart(Tail(s)) ELSE s

RECURSIVE TrimEnd(_)
TrimEnd(s) == IF s /= <<>> /\ s[Len(s)] = " " THEN TrimEnd(SubSeq(s, 1, Len(s) - 1)) ELSE s

\* String.prototype.trim
Trim(s) == TrimEnd(TrimStart(s))

\* newElement(): the <li> is appended unless the value is the empty string
NewElement(inputValue) ==
    /\ IF inputValue = <<>>
          THEN /\ alert' = TRUE
               /\ UNCHANGED myUL
          ELSE /\ Len(myUL) < MaxElements
               /\ myUL' = Append(myUL, [text |-> inputValue, display |-> "", checked |-> FALSE])
               /\ alert' = FALSE
    /\ UNCHANGED <<localVars, dbVars, ipcVars, histVars>>

\* close[i].onclick; the click bubbles to the <ul>, whose listener sees tagName SPAN
CloseOnclick(i) ==
    /\ myUL' = [myUL EXCEPT ![i].display = "none"]
    /\ UNCHANGED <<alert, localVars, dbVars, ipcVars, histVars>>

\* the <ul>'s click listener, for a click on the i-th <li>, which must be displayed
ListClick(i) ==
    /\ myUL[i].display = ""
    /\ myUL' = [myUL EXCEPT ![i].checked = ~myUL[i].checked]
    /\ UNCHANGED <<alert, localVars, dbVars, ipcVars, histVars>>

NextScript ==
    \/ \E inputValue \in InputValues : NewElement(inputValue)
    \/ \E i \in 1..Len(myUL) : CloseOnclick(i)
    \/ \E i \in 1..Len(myUL) : ListClick(i)

SpecScript == Init /\ [][NextScript]_vars

\* ------------------------------------------------------- claims under Spec

ListL == GetTodos(todos)
ListR == SelectAll(table)

HasId(list, id) == \E i \in 1..Len(list) : list[i].id = id

Injective(seq) == \A i, j \in 1..Len(seq) : seq[i] = seq[j] => i = j

ByBirth(list) == \A i, j \in 1..Len(list) : i < j => list[i].born < list[j].born

\* an item as list() shows it: {id, text, completed}, completed as 0 or 1
ShownL(list) ==
    [i \in 1..Len(list) |->
        [id |-> list[i].id, text |-> list[i].text,
         completed |-> IF list[i].completed THEN 1 ELSE 0]]

ShownR(list) ==
    [i \in 1..Len(list) |->
        [id |-> list[i].id, text |-> list[i].text, completed |-> list[i].completed]]

\* C1: no id is assigned to two items, in the localStorage store and in the
\* relational store, whatever was added, toggled and removed in between.
C1_IdNeverReused ==
    /\ Injective(issuedL)
    /\ Injective(issuedR)

\* C2: once remove(id) has taken an item out of a store, no later list() of that
\* store holds an item with that id, whatever is added afterwards.
C2_RemovalPermanent ==
    /\ \A id \in removedL : ~HasId(ListL, id)
    /\ \A id \in removedR : ~HasId(ListR, id)

\* C7: after the same sequence of add, toggle and remove, list() of the
\* localStorage store and of the relational store show the same items in the
\* same order (completed compared as false/0, true/1).
C7_Interchangeable ==
    ShownL(ListL) = ShownR(ListR)

\* C8: after add(t), list() is the list before the add followed by one item with
\* text t and completed false (0 in the relational store).
C8_AddRoundTrip ==
    op.kind = "add" =>
        /\ Len(ListL) = Len(preL) + 1
        /\ SubSeq(ListL, 1, Len(preL)) = preL
        /\ ListL[Len(ListL)].text = op.text
        /\ ListL[Len(ListL)].completed = FALSE
        /\ Len(ListR) = Len(preR) + 1
        /\ SubSeq(ListR, 1, Len(preR)) = preR
        /\ ListR[Len(ListR)].text = op.text
        /\ ListR[Len(ListR)].completed = 0

\* an add into a store that already holds two items, one of them completed
C8_Witness ==
    /\ op.kind = "add"
    /\ Len(preL) >= 2
    /\ Len(preR) >= 2
    /\ \E i \in 1..Len(preL) : preL[i].completed
    /\ \E i \in 1..Len(preR) : preR[i].completed = 1

TwoToggles == op.kind = "toggle" /\ op2.kind = "toggle" /\ op.id = op2.id

\* C9: two consecutive toggle(id) of an id the store holds leave the whole
\* collection, that item's completed included, as it was before them.
C9_ToggleInvolution ==
    /\ (TwoToggles /\ HasId(pre2L, op.id)) => ListL = pre2L
    /\ (TwoToggles /\ HasId(pre2R, op.id)) => ListR = pre2R

\* two toggles of an id both stores hold, among other items
C9_Witness ==
    /\ TwoToggles
    /\ HasId(pre2L, op.id) /\ Len(pre2L) >= 2 /\ preL /= pre2L
    /\ HasId(pre2R, op.id) /\ Len(pre2R) >= 2 /\ preR /= pre2R

\* add A, add B, remove A: the store held A alone two operations ago
AThenBThenRemoveA(pre2) ==
    op.kind = "remove" /\ op2.kind = "add" /\ Len(pre2) = 1 /\ pre2[1].id = op.id

\* C10: list() shows the items in the order of their creation, in both stores,
\* and so does the collection loaded again from what was saved; adding A, then
\* B, then removing A leaves exactly [B].
C10_InsertionOrder ==
    /\ ByBirth(ListL)
    /\ ByBirth(ListR)
    /\ ModelLoad(localStorage) = ListL
    /\ AThenBThenRemoveA(pre2L) => ListL = <<preL[2]>>
    /\ AThenBThenRemoveA(pre2R) => ListR = <<preR[2]>>

\* a removal from the middle: the survivors around it are listed, in order
C10_Witness ==
    /\ op.kind = "remove"
    /\ Len(ListL) >= 2 /\ ListL[2].born > ListL[1].born + 1
    /\ Len(ListR) >= 2 /\ ListR[2].born > ListR[1].born + 1
    /\ Len(ListL) = Len(preL) - 1

\* C11: in every reachable state no two items of a store have the same id: not in
\* Model.todos, not in what is persisted, not in the table.
C11_UniqueIds ==
    /\ \A i, j \in 1..Len(ListL) : ListL[i].id = ListL[j].id => i = j
    /\ \A i, j \in 1..Len(ModelLoad(localStorage)) :
          ModelLoad(localStorage)[i].id = ModelLoad(localStorage)[j].id => i = j
    /\ \A r, q \in table : r.id = q.id => r = q

\* two items in each store, after the localStorage store has given some id twice
C11_Witness ==
    /\ Len(ListL) >= 2
    /\ Cardinality(table) >= 2
    /\ ~Injective(issuedL)

MaxIdOf(list) ==
    IF list = <<>> THEN 0
    ELSE CHOOSE m \in {list[i].id : i \in 1..Len(list)} : \A i \in 1..Len(list) : list[i].id <= m

\* C12: in the localStorage store add gives the new item the largest id of the
\* collection plus one, 1 when it is empty; from the empty store add(t), toggle(1),
\* remove(1) list [{1, t, false}], then [{1, t, true}], then [].
C12_NextId ==
    /\ op.kind = "add" => issuedL[Len(issuedL)] = MaxIdOf(preL) + 1
    /\ (nops = 1 /\ op.kind = "add")
          => ShownL(ListL) = <<[id |-> 1, text |-> op.text, completed |-> 0]>>
    /\ (nops = 2 /\ op2.kind = "add" /\ op.kind = "toggle" /\ op.id = 1)
          => ShownL(ListL) = <<[id |-> 1, text |-> op2.text, completed |-> 1]>>
    /\ (nops = 3 /\ Len(pre2L) = 1 /\ op2.kind = "toggle" /\ op2.id = 1
            /\ op.kind = "remove" /\ op.id = 1)
          => ListL = <<>>

\* an add into a collection whose smallest id is no longer 1
C12_Witness ==
    /\ op.kind = "add"
    /\ Len(preL) >= 2
    /\ preL[1].id > 1

\* C14: in the localStorage store a toggle of an id that no item has changes
\* neither Model.todos nor the persisted value.
C14_ToggleAbsentIsNoOp ==
    [][\A id \in Ids :
          (~HasId(GetTodos(todos), id) /\ Toggle(id))
              => (todos' = todos /\ localStorage' = localStorage)]_vars

\* a toggle of an absent id has run on a collection that is not empty
C14_Witness ==
    /\ op.kind = "toggle"
    /\ ~HasId(preL, op.id)
    /\ Len(preL) >= 1

\* C15: a remove of an id that no item has, a second remove of the same id
\* included, leaves list() of either store as it was, and the host's handler resolves.
C15_RemoveAbsentIsNoOp ==
    op.kind = "remove" =>
        /\ ~HasId(preL, op.id) => ListL = preL
        /\ ~HasId(preR, op.id) => ListR = preR
        /\ outR = "resolved"

\* the second of two removes of the same id, which the first took out of both
\* stores, with items left in both
C15_Witness ==
    /\ op.kind = "remove"
    /\ op2.kind = "remove"
    /\ op.id = op2.id
    /\ HasId(pre2L, op.id)
    /\ HasId(pre2R, op.id)
    /\ ListL /= <<>>
    /\ ListR /= <<>>

\* C16: in the localStorage store, after every add, toggle or remove, the value under
\* the key 'todos' deserializes to Model.todos, items and order, which is what a new
\* Model loads.
C16_PersistedIsMemory ==
    /\ ModelLoad(localStorage) = GetTodos(todos)
    /\ (op.kind \in {"add", "remove"} \/ (op.kind = "toggle" /\ HasId(preL, op.id)))
          => /\ localStorage /= <<>>
             /\ JSONparse(localStorage[1]) = GetTodos(todos)

\* a toggle that found its item has been saved, two items in the collection
C16_Witness ==
    /\ op.kind = "toggle"
    /\ HasId(preL, op.id)
    /\ Len(todos) >= 2
    /\ localStorage /= <<>>
    /\ localStorage[1] /= JSONstringify(preL)

\* C20: list() changes neither Model.todos, nor the persisted value, nor the table;
\* and a list() with no mutation since the list() before it returns the same
\* sequence from each store, items and order.
C20_ReadIdempotent ==
    [][List =>
          /\ todos' = todos
          /\ localStorage' = localStorage
          /\ table' = table
          /\ sqlite_sequence' = sqlite_sequence
          /\ listed /= <<>> => (listed'[1].L = listed[1].L /\ listed'[1].R = listed[1].R)]_vars

\* a second list() with no mutation in between, two items in each store
C20_Witness ==
    /\ listed /= <<>>
    /\ listed[1].n = 2
    /\ Len(listed[1].L) >= 2
    /\ Len(listed[1].R) >= 2

\* C21: the id the host's addTodo resolves with is the id of no row that was there
\* before, and the table then holds exactly one row with that id, with the submitted
\* text and completed = 0.
C21_AddReturnsNewId ==
    op.kind = "add" =>
        /\ lastID /= <<>>
        /\ ~HasId(preR, lastID[1])
        /\ Cardinality({r \in table : r.id = lastID[1]}) = 1
        /\ \A r \in table : r.id = lastID[1] => (r.text = op.text /\ r.completed = 0)

\* an add into a table that holds rows, after a row has been deleted
C21_Witness ==
    /\ op.kind = "add"
    /\ Len(preR) >= 1
    /\ removedR /= {}
    /\ lastID /= <<>>

\* C25: after a render the visible list has one entry per item of the list it was
\* given, in the same order, with that item's id and text, checked exactly when the
\* item is completed, and nothing else.
C25_RenderIsFullReplace ==
    /\ Len(dom) = Len(ListL)
    /\ \A i \in 1..Len(dom) :
          /\ ParseInt(dom[i].id) = ListL[i].id
          /\ dom[i].text = ListL[i].text
          /\ dom[i].checked <=> ListL[i].completed

\* the render after a remove that took an item out, with a checked and an unchecked
\* entry left
C25_Witness ==
    /\ op.kind = "remove"
    /\ HasId(preL, op.id)
    /\ \E i, j \in 1..Len(dom) : dom[i].checked /\ ~dom[j].checked

\* what an operation o must leave alone, between list() before it and list() after it
FrameHolds(o, pre, now) ==
    /\ o.kind = "add" =>
          /\ Len(now) = Len(pre) + 1
          /\ SubSeq(now, 1, Len(pre)) = pre
    /\ o.kind = "toggle" =>
          /\ Len(now) = Len(pre)
          /\ \A i \in 1..Len(pre) :
                /\ now[i].id = pre[i].id
                /\ now[i].text = pre[i].text
                /\ pre[i].id /= o.id => now[i] = pre[i]
    /\ o.kind = "remove" =>
          now = SelectSeq(pre, LAMBDA item : item.id /= o.id)

\* C26: no operation changes the id or the text of an item that was there; toggle(id)
\* and remove(id) leave the items with another id as they were and in the same
\* order; add leaves every item that was there as it was. In both stores.
C26_OthersUnchanged ==
    /\ FrameHolds(op, preL, ListL)
    /\ FrameHolds(op, preR, ListR)

\* a toggle of an item both stores hold, next to an item that is completed
C26_Witness ==
    /\ op.kind = "toggle"
    /\ HasId(preL, op.id)
    /\ HasId(preR, op.id)
    /\ \E i \in 1..Len(preL) : preL[i].id /= op.id /\ preL[i].completed
    /\ \E i \in 1..Len(preR) : preR[i].id /= op.id /\ preR[i].completed = 1

\* ---------------------------------------------------- claims under SpecIPC

InHost(c) == c.pc \in {"insert", "select", "update", "delete", "list", "thrown"}

\* C3: in the host, a toggle whose SELECT found no row ends with its promise
\* rejected with NotFoundError; the callback of db.get does not throw.
C3_MissingRowIsNotFound ==
    \A c \in 1..Len(calls) :
        (calls[c].kind = "toggle" /\ calls[c].row = NoRow)
            => (calls[c].pc = "rejected" /\ calls[c].err = "NotFoundError")

\* C4: at no time are the handlers of two gestures both under way.
C4_NoOverlap ==
    \A c, d \in 1..Len(calls) :
        (calls[c].kind /= "init" /\ calls[d].kind /= "init"
            /\ calls[c].pc /= "thrown" /\ calls[d].pc /= "thrown") => c = d

\* C5: whenever no call is under way, the rendered list is the rendering of the
\* table's rows.
C5_ViewShowsStore ==
    calls = <<>> => ipcDom = RenderRows(SelectAll(table))

\* C6: every request the host holds can be served: a statement of it is queued
\* and its callback will resolve or reject the promise.
C6_EveryRequestSettles ==
    \A c \in 1..Len(calls) : InHost(calls[c]) => ENABLED HostStep(c)

\* C17: when the SELECT * of a list request fails, the Controller renders the
\* empty list.
C17_FailedListRendersEmpty ==
    [][\A c \in 1..Len(calls) :
          (calls[c].pc = "rejected" /\ calls[c].failed = "list" /\ RejectionReply(c))
              => ipcDom' = <<>>]_vars

\* the step of the renderer in which a callback the Controller passed to the Model
\* is called for call c
ControllerCallback(c) == MutationReply(c) \/ ListReply(c)

\* C18: a call whose request the host rejected is over only in a step that calls
\* the Controller's callback.
C18_FailureReachesController ==
    [][\A c \in 1..Len(calls) :
          (calls[c].pc = "rejected" /\ calls' = Drop(calls, c)) => ControllerCallback(c)]_vars

\* C19: a click on an item calls the toggle handler once, with the item's id, and no
\* other handler; a click on its close span calls the remove handler once, with the
\* item's id, and no other handler; no click calls more than one handler.
C19_OneHandlerPerClick ==
    /\ \A i \in 1..Len(ipcDom) :
          /\ Dispatch(LiElement(ipcDom[i]))
                = <<[handler |-> "toggle", id |-> ParseInt(ipcDom[i].id)]>>
          /\ Dispatch(SpanElement(ipcDom[i]))
                = <<[handler |-> "remove", id |-> ParseInt(ipcDom[i].id)]>>
    /\ Len(Dispatch(UlElement)) <= 1
    /\ Len(calls) <= MaxInFlight

\* the click on the close span of a checked item has started its one call
C19_Witness ==
    /\ Len(calls) = 1
    /\ calls[1].kind = "remove"
    /\ calls[1].pc = "delete"
    /\ \E i \in 1..Len(ipcDom) : ipcDom[i].checked /\ ParseInt(ipcDom[i].id) = calls[1].id

\* C22: a call of the Controller goes mutation, list, render in that order: its
\* list request is issued only when the reply of its mutation has arrived, its list
\* reply holds what SELECT * gave, and the view changes only by rendering the list
\* reply of a call, which ends that call.
C22_MutationListRender ==
    [][/\ (ipcDom' /= ipcDom) =>
              \E c \in 1..Len(calls) :
                  /\ calls[c].pc = "listed"
                  /\ ipcDom' = RenderRows(calls[c].todos)
                  /\ calls' = Drop(calls, c)
       /\ (Len(calls') >= Len(calls)) =>
              \A c \in 1..Len(calls) :
                  /\ (calls'[c].pc = "list" /\ calls[c].pc /= "list")
                        => calls[c].pc = "mutated"
                  /\ (calls'[c].pc = "listed" /\ calls[c].pc /= "listed")
                        => (calls[c].pc = "list" /\ calls'[c].todos = SelectAll(table))
       /\ (Len(calls') > Len(calls)) =>
              calls'[Len(calls')].pc \in {"insert", "select", "delete"}]_vars

\* the list reply of a remove has arrived without the removed row and is not yet
\* rendered
C22_Witness ==
    \E c \in 1..Len(calls) :
        /\ calls[c].kind = "remove"
        /\ calls[c].pc = "listed"
        /\ ~HasId(calls[c].todos, calls[c].id)
        /\ ipcDom /= RenderRows(calls[c].todos)

\* C23: while the constructor's list request has not been rendered, no handler of a
\* gesture has started a call.
C23_InitialRenderFirst ==
    (\E c \in 1..Len(calls) : calls[c].kind = "init")
        => \A c \in 1..Len(calls) : calls[c].kind = "init"

C27_TogglesCompose ==
    \A r \in table : (r.completed = 1) <=> (r.id \in flippedOdd)

\* ------------------------------------------------- claims under SpecScript

\* C13: submitting a value that is empty or only whitespace leaves the rendered list
\* as it was and raises the notice.
C13_BlankSubmitChangesNothing ==
    [][\A inputValue \in InputValues :
          (Trim(inputValue) = <<>> /\ NewElement(inputValue)) => (myUL' = myUL /\ alert')]_vars

====
